---- MODULE Spec2Model ----
(***************************************************************************)
(* Onboarding progress store of the helpdesk chatbot (src/agents/tools.py, *)
(* duplicated in src/chatbot/agents/tools.py).                             *)
(*                                                                         *)
(* The store is one JSON file (STORE) holding, per user id, a checklist    *)
(* and a history.  Every operation loads the whole file into a dict,       *)
(* changes the dict in memory and (write operations only) saves the whole  *)
(* dict back.  New users get DEFAULT_CHECKLIST.copy(): a shallow copy, so   *)
(* the item dicts of a user created in this call ARE the item dicts of the *)
(* module-level template until the record is reloaded from the file.       *)
(***************************************************************************)
EXTENDS Integers, Sequences, FiniteSets, TLC

\* ------------------------------------------------------------------ bounds
MaxCalls == 3          \* store operations begun in one sequential behaviour
MaxConcCalls == 2      \* store operations begun in one concurrent behaviour
MaxClock == 2          \* last clock reading (in ticks)
TicksPerSecond == 2    \* clock readings that int(time.time()) maps to one second
TraceLen == 3          \* completed calls remembered for the claims
MaxArgCalls == 2       \* store operations begun in one behaviour of SpecArgs
MaxFailCalls == 2      \* store operations begun in one behaviour of SpecFail

\* ------------------------------------------------------------------ inputs
Users == {"alice", "bob"}
Threads == {"t1", "t2"}

\* ---------------------------------------------------------------- template
\* DEFAULT_CHECKLIST as the module is imported.
DEFAULT_CHECKLIST ==
  << [id |-> "d1-setup",      title |-> "Day 1: Laptop, SSO, email, chat",         done |-> FALSE],
     [id |-> "join-channels", title |-> "Join team channels & calendars",          done |-> FALSE],
     [id |-> "install-tools", title |-> "Install dev/tools (IDE, VPN, ticketing)", done |-> FALSE],
     [id |-> "sandbox",       title |-> "Request sandbox access",                  done |-> FALSE],
     [id |-> "train-sec",     title |-> "Security Awareness training",             done |-> FALSE],
     [id |-> "train-data",    title |-> "Data Protection training",                done |-> FALSE],
     [id |-> "dummy",         title |-> "Get dummy data in sandbox",               done |-> FALSE],
     [id |-> "demo",          title |-> "5-min end-of-week demo",                  done |-> FALSE] >>

\* The ids of a checklist, in list order.
Ids(checklist) == [i \in 1..Len(checklist) |-> checklist[i].id]

\* The composite arguments handed to mark_onboarding_step, as the fields
\* that user_and_step.split(":") yields (split never yields an empty list).
StepInputs == {"sandbox", "dummy", "bogus-id"}
MarkArgs ==
  {<<"alice", s>> : s \in StepInputs}
    \cup {<<"bob", "sandbox">>, <<"alice", "sandbox", "undone">>, <<"alice">>}

\* The composite arguments handed to request_dummy_data, after split(":").
DummyArgs == {<<"alice">>, <<"bob", "hr_cases", "large">>}

VARIABLES
  store,      \* content of data/onboarding.json: user id -> record ({} when the file is absent)
  template,   \* the module-level DEFAULT_CHECKLIST list of this process
  now,        \* the clock, in ticks
  ncalls,     \* store operations begun so far
  trace,      \* the last TraceLen completed calls, oldest first
  th,         \* per request thread: position in its operation and its local dict
  agents,     \* the loaded agents: agent key -> chat_history of its ChatbotAgent
  exchanges   \* per agent, the successful exchanges since its last clear_history, oldest first

vars == <<store, template, now, ncalls, trace, th, agents, exchanges>>

\* The state of the chat agents, which no store operation touches.
chatvars == <<agents, exchanges>>

\* ------------------------------------------------------------ pure helpers
\* int(time.time()) of a clock reading.
IntTime(t) == t \div TicksPerSecond

\* _load(): the parsed file.  Every record of the result is a fresh object,
\* so no loaded checklist shares items with the template.
\* A local dict is recs (user -> record) plus shared: the users whose
\* checklist items are the template's own item dicts.
Load_(st) == [recs |-> st, shared |-> {}]

\* Variant that creates the record with a truncated template.
EnsureUser_Partial(db, user) ==
  IF user \in DOMAIN db.recs THEN db
  ELSE [recs |-> db.recs @@ (user :> [checklist |-> SubSeq(DEFAULT_CHECKLIST, 1, 7), history |-> <<>>]),
        shared |-> db.shared]

\* _ensure_user(db, user): DEFAULT_CHECKLIST.copy() copies the list, not the
\* items, so the new record's items alias the template's.
EnsureUser(db, user) ==
  IF user \in DOMAIN db.recs THEN db
  ELSE [recs |-> db.recs @@ (user :> [checklist |-> DEFAULT_CHECKLIST, history |-> <<>>]),
        shared |-> db.shared \cup {user}]

\* db[user]["checklist"] as the interpreter sees it: through the template
\* when the items are shared.
ChecklistOf(db, tpl, user) ==
  IF user \in db.shared THEN tpl ELSE db.recs[user].checklist

\* The loop of mark_onboarding_step: the index of the first item whose id
\* is step_id, 0 when there is none.
FindStep(checklist, step_id) ==
  IF \E i \in 1..Len(checklist) : checklist[i].id = step_id
  THEN CHOOSE i \in 1..Len(checklist) :
         /\ checklist[i].id = step_id
         /\ \A j \in 1..(i - 1) : checklist[j].id # step_id
  ELSE 0

\* Variant that flips the flag instead of setting it.
SetDone_Toggle(db, tpl, user, i, done) ==
  IF user \in db.shared
  THEN [db |-> db, tpl |-> [tpl EXCEPT ![i].done = ~tpl[i].done]]
  ELSE [db |-> [db EXCEPT !.recs[user].checklist[i].done = ~db.recs[user].checklist[i].done],
        tpl |-> tpl]

\* Variant that also marks every item listed before item i.
SetDone_Cascade(db, tpl, user, i, done) ==
  IF user \in db.shared
  THEN [db |-> db,
        tpl |-> [j \in 1..Len(tpl) |-> IF j <= i THEN [tpl[j] EXCEPT !.done = done] ELSE tpl[j]]]
  ELSE [db |-> [db EXCEPT !.recs[user].checklist =
                  [j \in 1..Len(@) |-> IF j <= i THEN [@[j] EXCEPT !.done = done] ELSE @[j]]],
        tpl |-> tpl]

\* s["done"] = bool(done) on item i of the user's checklist: writes the
\* template's item when the items are shared.  Yields the dict and template.
SetDone(db, tpl, user, i, done) ==
  IF user \in db.shared
  THEN [db |-> db, tpl |-> [tpl EXCEPT ![i].done = done]]
  ELSE [db |-> [db EXCEPT !.recs[user].checklist[i].done = done], tpl |-> tpl]

\* db[user]["history"].append(event)
AppendHistory(db, user, event) ==
  [db EXCEPT !.recs[user].history = Append(@, event)]

\* _save(db): json.dumps writes the values the dict has at that moment.
Save_(db, tpl) ==
  [u \in DOMAIN db.recs |->
     [checklist |-> ChecklistOf(db, tpl, u), history |-> db.recs[u].history]]

\* Variant that counts the items still open.
Completed_Open(checklist) == Cardinality({i \in 1..Len(checklist) : ~checklist[i].done})

\* The number of done items: sum(1 for item in checklist if item["done"]).
Completed(checklist) == Cardinality({i \in 1..Len(checklist) : checklist[i].done})

\* Variant that lists the items last to first.
FormatChecklist_Reversed(checklist) ==
  [kind |-> "checklist",
   lines |-> [i \in 1..Len(checklist) |->
                [marker |-> IF checklist[Len(checklist) + 1 - i].done THEN "done" ELSE "open",
                 title |-> checklist[Len(checklist) + 1 - i].title]],
   completed |-> Completed(checklist),
   total |-> Len(checklist)]

\* The text get_onboarding_checklist builds: one line per item (marker and
\* title) in list order, then "Progress: completed/total completed".
FormatChecklist(checklist) ==
  [kind |-> "checklist",
   lines |-> [i \in 1..Len(checklist) |->
                [marker |-> IF checklist[i].done THEN "done" ELSE "open",
                 title |-> checklist[i].title]],
   completed |-> Completed(checklist),
   total |-> Len(checklist)]

\* done of mark_onboarding_step: True with two fields, else whether the
\* third field is one of done/true/yes.
Lower(s) ==
  CASE s = "DONE" -> "done"
    [] s = "Yes" -> "yes"
    [] s = "True" -> "true"
    [] s = "HELP" -> "help"
    [] s = "/Help" -> "/help"
    [] s = "Hi, I just joined" -> "hi, i just joined"
    [] OTHER -> s

\* Variant that compares the third field without lower-casing it.
ParseDone_CaseSensitive(parts) ==
  IF Len(parts) = 2 THEN TRUE ELSE parts[3] \in {"done", "true", "yes"}

ParseDone(parts) ==
  IF Len(parts) = 2 THEN TRUE ELSE Lower(parts[3]) \in {"done", "true", "yes"}

\* ------------------------------------------- the operations, run atomically
\* Each yields the file content, the template and the returned text after
\* the whole call has run against file content st and template tpl.

\* Variant that saves the dict after ensuring the user.
GetRun_Saving(st, tpl, user) ==
  LET db == EnsureUser(Load_(st), user)
  IN [store |-> Save_(db, tpl), tpl |-> tpl,
      res |-> FormatChecklist(ChecklistOf(db, tpl, user))]

\* Variant that records the view in the user's history and saves.
GetRun_Logging(st, tpl, user) ==
  LET db == EnsureUser(Load_(st), user)
      db2 == AppendHistory(db, user, [ts |-> 0, action |-> "view"])
  IN [store |-> Save_(db2, tpl), tpl |-> tpl,
      res |-> FormatChecklist(ChecklistOf(db, tpl, user))]

\* get_onboarding_checklist(user): loads, ensures, formats; never saves.
GetRun(st, tpl, user) ==
  LET db == EnsureUser(Load_(st), user)
  IN [store |-> st, tpl |-> tpl,
      res |-> FormatChecklist(ChecklistOf(db, tpl, user))]

\* Variant that saves the dict on the not-found path too.
MarkRun_SaveOnMiss(st, tpl, parts, ts) ==
  IF Len(parts) < 2
  THEN [store |-> st, tpl |-> tpl, res |-> [kind |-> "format"]]
  ELSE
    LET user == parts[1]
        step_id == parts[2]
        done == ParseDone(parts)
        db == EnsureUser(Load_(st), user)
        checklist == ChecklistOf(db, tpl, user)
        i == FindStep(checklist, step_id)
    IN IF i = 0
       THEN [store |-> Save_(db, tpl), tpl |-> tpl,
             res |-> [kind |-> "notfound", step |-> step_id, ids |-> Ids(checklist)]]
       ELSE
         LET m == SetDone(db, tpl, user, i, done)
             db2 == AppendHistory(m.db, user, [ts |-> ts, step |-> step_id, done |-> done])
         IN [store |-> Save_(db2, m.tpl), tpl |-> m.tpl,
             res |-> [kind |-> "marked", title |-> checklist[i].title, done |-> done]]

\* mark_onboarding_step(user_and_step), its time.time() reading being ts.
MarkRun(st, tpl, parts, ts) ==
  IF Len(parts) < 2
  THEN [store |-> st, tpl |-> tpl, res |-> [kind |-> "format"]]
  ELSE
    LET user == parts[1]
        step_id == parts[2]
        done == ParseDone(parts)
        db == EnsureUser(Load_(st), user)
        checklist == ChecklistOf(db, tpl, user)
        i == FindStep(checklist, step_id)
    IN IF i = 0
       THEN [store |-> st, tpl |-> tpl,
             res |-> [kind |-> "notfound", step |-> step_id, ids |-> Ids(checklist)]]
       ELSE
         LET m == SetDone(db, tpl, user, i, done)
             db2 == AppendHistory(m.db, user, [ts |-> ts, step |-> step_id, done |-> done])
         IN [store |-> Save_(db2, m.tpl), tpl |-> m.tpl,
             res |-> [kind |-> "marked", title |-> checklist[i].title, done |-> done]]

\* f"SANDBOX-{int(time.time())}" and f"DUMMY-{int(time.time())}"
TicketId(prefix, t) == <<prefix, IntTime(t)>>

\* Variant that also marks the 'sandbox' item done.
SandboxRun_Marks(st, tpl, user, t1, t2) ==
  LET db == EnsureUser(Load_(st), user)
      ticket_id == TicketId("SANDBOX", t1)
      m == SetDone(db, tpl, user, FindStep(ChecklistOf(db, tpl, user), "sandbox"), TRUE)
      db2 == AppendHistory(m.db, user,
               [ts |-> t2, action |-> "sandbox_request", ticket |-> ticket_id])
  IN [store |-> Save_(db2, m.tpl), tpl |-> m.tpl,
      res |-> [kind |-> "sandbox", ticket |-> ticket_id]]

\* request_sandbox_access(user): t1 is the clock reading of the ticket id,
\* t2 the later reading of the event's ts.
SandboxRun(st, tpl, user, t1, t2) ==
  LET db == EnsureUser(Load_(st), user)
      ticket_id == TicketId("SANDBOX", t1)
      db2 == AppendHistory(db, user,
               [ts |-> t2, action |-> "sandbox_request", ticket |-> ticket_id])
  IN [store |-> Save_(db2, tpl), tpl |-> tpl,
      res |-> [kind |-> "sandbox", ticket |-> ticket_id]]

\* Variant that takes dataset and size one field too late.
DummyRun_ShiftedFields(st, tpl, parts, t1, t2) ==
  LET user == IF Len(parts) > 0 THEN parts[1] ELSE "unknown"
      dataset == IF Len(parts) > 2 THEN parts[2] ELSE "sample_orders"
      size == IF Len(parts) > 3 THEN parts[3] ELSE "small"
      req_id == TicketId("DUMMY", t1)
      db == EnsureUser(Load_(st), user)
      db2 == AppendHistory(db, user,
               [ts |-> t2, action |-> "dummy_data", dataset |-> dataset,
                size |-> size, req |-> req_id])
  IN [store |-> Save_(db2, tpl), tpl |-> tpl,
      res |-> [kind |-> "dummy", req |-> req_id, dataset |-> dataset, size |-> size]]

\* request_dummy_data(query): t1 is the clock reading of the request id,
\* t2 the later reading of the event's ts.
DummyRun(st, tpl, parts, t1, t2) ==
  LET user == IF Len(parts) > 0 THEN parts[1] ELSE "unknown"
      dataset == IF Len(parts) > 1 THEN parts[2] ELSE "sample_orders"
      size == IF Len(parts) > 2 THEN parts[3] ELSE "small"
      req_id == TicketId("DUMMY", t1)
      db == EnsureUser(Load_(st), user)
      db2 == AppendHistory(db, user,
               [ts |-> t2, action |-> "dummy_data", dataset |-> dataset,
                size |-> size, req |-> req_id])
  IN [store |-> Save_(db2, tpl), tpl |-> tpl,
      res |-> [kind |-> "dummy", req |-> req_id, dataset |-> dataset, size |-> size]]

\* ------------------------------------------------------- the chat agents
\* The keys of the dict load_agents returns.
AgentNames == {"chatbot", "onboarding"}

\* chat_history keeps at most this many entries (ten exchanges).
MaxHistory == 20

\* An entry of chat_history: the tuple (role, text).
Entry(role, text) == <<role, text>>

\* What executor.invoke can do: return a dict with an "output" key, return
\* a dict without one, or raise.
ExecutorOutcomes ==
  { [kind |-> "ok", result |-> [output |-> "Here is the answer."]],
    [kind |-> "ok", result |-> [input |-> "echo"]],
    [kind |-> "raise", error |-> "RateLimitError"] }

\* result.get("output", "I'm sorry, I couldn't process that.")
GetOutput(result) ==
  IF "output" \in DOMAIN result THEN result.output
  ELSE "I'm sorry, I couldn't process that."

\* The slice s[-n:] of a list, for n > 0.
LastN(s, n) == IF Len(s) > n THEN SubSeq(s, Len(s) - n + 1, Len(s)) ELSE s

\* The value reply returns when the executor raises e: an f-string of a
\* fixed prefix and str(e), kept as its parts.
ErrorPrefix == "Sorry, I encountered an error: "

\* Variant that keeps one entry too many when it truncates.
ReplyRun_KeepsExtra(chat_history, message, outcome) ==
  IF outcome.kind = "raise"
  THEN [history |-> chat_history, kind |-> "return", res |-> <<ErrorPrefix, outcome.error>>]
  ELSE LET response == GetOutput(outcome.result)
           h == chat_history \o <<Entry("human", message), Entry("assistant", response)>>
       IN [history |-> IF Len(h) > MaxHistory THEN LastN(h, MaxHistory + 1) ELSE h,
           kind |-> "return", res |-> <<response>>]

\* Variant that records the human message before it invokes the executor.
ReplyRun_RecordsFirst(chat_history, message, outcome) ==
  LET h0 == Append(chat_history, Entry("human", message))
  IN IF outcome.kind = "raise"
     THEN [history |-> h0, kind |-> "return", res |-> <<ErrorPrefix, outcome.error>>]
     ELSE LET response == GetOutput(outcome.result)
              h == Append(h0, Entry("assistant", response))
          IN [history |-> IF Len(h) > MaxHistory THEN LastN(h, MaxHistory) ELSE h,
              kind |-> "return", res |-> <<response>>]

\* ChatbotAgent.reply on an agent whose chat_history is given: the new
\* chat_history and how the call ends: kind is "return" with the returned
\* string (as the parts it is built from). Everything from the invocation to
\* the truncation is inside the try, whose except clause returns the error
\* string.
ReplyRun(chat_history, message, outcome) ==
  IF outcome.kind = "raise"
  THEN [history |-> chat_history, kind |-> "return", res |-> <<ErrorPrefix, outcome.error>>]
  ELSE LET response == GetOutput(outcome.result)
           h == chat_history \o <<Entry("human", message), Entry("assistant", response)>>
       IN [history |-> IF Len(h) > MaxHistory THEN LastN(h, MaxHistory) ELSE h,
           kind |-> "return", res |-> <<response>>]

\* ChatbotAgent.clear_history.
ClearRun(chat_history) == <<>>

\* ------------------------------------------------- the /api/chat handlers
\* A field of the request's JSON object as data.get finds it: absent (None),
\* a string, or a value of another type (a number).
JNull == [t |-> "null"]
JStr(s) == [t |-> "str", v |-> s]
JNum == [t |-> "num", n |-> 7]

\* (v or default): the default for None and for the empty string.
OrElse(v, default) ==
  IF v.t = "null" \/ (v.t = "str" /\ v.v = "") THEN JStr(default) ELSE v

\* str.strip on the strings the requests carry.
Strip(s) ==
  CASE s = "   " -> ""
    [] s = " HELP " -> "HELP"
    [] s = " onboarding " -> "onboarding"
    [] OTHER -> s

\* Whether a lower-cased message contains one of the onboarding phrases.
TriggerPhrases == {"i just joined", "i'm new", "new employee", "just started"}
HasTrigger(s) ==
  \E phrase \in TriggerPhrases :
    s = phrase \/ (s = "hi, i just joined" /\ phrase = "i just joined")

\* A response: the status code and the JSON body, as what kind of body it
\* is and the strings it is built from.
Response(status, kind, body) == [status |-> status, kind |-> kind, body |-> body]

\* What a handler run leaves: the agents, the response, the agent keys it
\* looked up and the agent.reply calls it made, in order.
Handled(ags, res, lookups, calls) ==
  [agents |-> ags, res |-> res, lookups |-> lookups, calls |-> calls]

\* Variant that looks the agent up before it handles the slash commands.
ChatRun_LookupFirst(ags, data, outcome) ==
  LET m == OrElse(data.message, "")
      n == OrElse(data.agent, "chatbot")
  IN IF m.t # "str" \/ n.t # "str"
     THEN Handled(ags, Response(500, "error", <<"Chat failed. Please try again.">>), <<>>, <<>>)
     ELSE LET user_msg == Strip(m.v)
              agent_name == Strip(n.v)
          IN IF user_msg = ""
             THEN Handled(ags, Response(400, "error", <<"message is required">>), <<>>, <<>>)
             ELSE IF agent_name \notin AgentNames
             THEN Handled(ags, Response(400, "error", <<"Unknown agent '", agent_name, "'">>),
                          <<agent_name>>, <<>>)
             ELSE IF Lower(user_msg) \in {"/help", "help"}
             THEN Handled(ags, Response(200, "help", <<"Here's what I can do:">>),
                          <<agent_name>>, <<>>)
             ELSE LET msg == IF HasTrigger(Lower(user_msg))
                             THEN "New employee onboarding help: " \o user_msg
                             ELSE user_msg
                      r == ReplyRun(ags[agent_name], msg, outcome)
                      call == [agent |-> agent_name, message |-> msg, outcome |-> outcome]
                  IN IF r.kind = "raise"
                     THEN Handled([ags EXCEPT ![agent_name] = r.history],
                                  Response(500, "error", <<"Chat failed. Please try again.">>),
                                  <<agent_name>>, <<call>>)
                     ELSE Handled([ags EXCEPT ![agent_name] = r.history],
                                  Response(200, "reply", r.res), <<agent_name>>, <<call>>)

\* chat of src/app.py. Both strips run before any check, inside the outer
\* try whose except clause answers 500.
ChatRun(ags, data, outcome) ==
  LET m == OrElse(data.message, "")
      n == OrElse(data.agent, "chatbot")
  IN IF m.t # "str" \/ n.t # "str"
     THEN Handled(ags, Response(500, "error", <<"Chat failed. Please try again.">>), <<>>, <<>>)
     ELSE LET user_msg == Strip(m.v)
              agent_name == Strip(n.v)
          IN IF user_msg = ""
             THEN Handled(ags, Response(400, "error", <<"message is required">>), <<>>, <<>>)
             ELSE IF Lower(user_msg) \in {"/help", "help"}
             THEN Handled(ags, Response(200, "help", <<"Here's what I can do:">>), <<>>, <<>>)
             ELSE LET msg == IF HasTrigger(Lower(user_msg))
                             THEN "New employee onboarding help: " \o user_msg
                             ELSE user_msg
                  IN IF agent_name \notin AgentNames
                     THEN Handled(ags, Response(400, "error", <<"Unknown agent '", agent_name, "'">>),
                                  <<agent_name>>, <<>>)
                     ELSE LET r == ReplyRun(ags[agent_name], msg, outcome)
                              call == [agent |-> agent_name, message |-> msg, outcome |-> outcome]
                          IN IF r.kind = "raise"
                             THEN Handled([ags EXCEPT ![agent_name] = r.history],
                                          Response(500, "error", <<"Chat failed. Please try again.">>),
                                          <<agent_name>>, <<call>>)
                             ELSE Handled([ags EXCEPT ![agent_name] = r.history],
                                          Response(200, "reply", r.res), <<agent_name>>, <<call>>)

\* chat of src/chatbot/app.py. The strips run outside any try, so their
\* AttributeError leaves the handler and the framework answers 500; there is
\* no slash-command step.
ChatbotChatRun(ags, data, outcome) ==
  LET m == OrElse(data.message, "")
      n == OrElse(data.agent, "chatbot")
  IN IF m.t # "str" \/ n.t # "str"
     THEN Handled(ags, Response(500, "unhandled", <<"AttributeError">>), <<>>, <<>>)
     ELSE LET user_msg == Strip(m.v)
              agent_name == Strip(n.v)
          IN IF user_msg = ""
             THEN Handled(ags, Response(400, "error", <<"message is required">>), <<>>, <<>>)
             ELSE IF agent_name \notin AgentNames
             THEN Handled(ags, Response(400, "error", <<"unknown agent '", agent_name, "'">>),
                          <<agent_name>>, <<>>)
             ELSE LET r == ReplyRun(ags[agent_name], user_msg, outcome)
                      call == [agent |-> agent_name, message |-> user_msg, outcome |-> outcome]
                  IN IF r.kind = "raise"
                     THEN Handled([ags EXCEPT ![agent_name] = r.history],
                                  Response(500, "error", <<"chat failed">>),
                                  <<agent_name>>, <<call>>)
                     ELSE Handled([ags EXCEPT ![agent_name] = r.history],
                                  Response(200, "reply", r.res), <<agent_name>>, <<call>>)

\* clear_chat of src/app.py: clear_history on every agent.
ClearChatRun(ags) == [a \in DOMAIN ags |-> ClearRun(ags[a])]

\* ------------------------------------------------------------------- state
EmptyStore == [u \in {} |-> 0]

IdleThread ==
  [pc |-> "idle", op |-> "none", arg |-> <<>>, db |-> Load_(EmptyStore),
   t1 |-> 0, res |-> [kind |-> "none"]]

\* The file as the process finds it: absent, or as an earlier run of the
\* program left it after mark_onboarding_step("alice:sandbox").
InitialStores ==
  {EmptyStore, MarkRun(EmptyStore, DEFAULT_CHECKLIST, <<"alice", "sandbox">>, 0).store}

Init ==
  /\ store \in InitialStores
  /\ template = DEFAULT_CHECKLIST
  /\ now = 0
  /\ ncalls = 0
  /\ trace = <<>>
  /\ th = [t \in Threads |-> IdleThread]
  /\ agents = [a \in AgentNames |-> <<>>]
  /\ exchanges = [a \in AgentNames |-> <<>>]

\* The trace after one more completed call.
Push(tr, call) ==
  IF Len(tr) < TraceLen THEN Append(tr, call) ELSE Append(Tail(tr), call)

\* The clock readings a call can make after a reading of t.
Later(t) == {t2 \in t..(t + 1) : t2 <= MaxClock}

\* Time passes between calls.
Tick ==
  /\ now < MaxClock
  /\ now' = now + 1
  /\ UNCHANGED <<store, template, ncalls, trace, th>>
  /\ UNCHANGED chatvars

\* --------------------------------------- one request at a time (sequential)
GetChecklist(user) ==
  /\ ncalls < MaxCalls
  /\ LET r == GetRun(store, template, user)
     IN /\ store' = r.store
        /\ template' = r.tpl
        /\ trace' = Push(trace, [op |-> "get", arg |-> user, res |-> r.res])
  /\ ncalls' = ncalls + 1
  /\ UNCHANGED <<now, th>>
  /\ UNCHANGED chatvars

MarkStep(parts) ==
  /\ ncalls < MaxCalls
  /\ LET r == MarkRun(store, template, parts, now)
     IN /\ store' = r.store
        /\ template' = r.tpl
        /\ trace' = Push(trace, [op |-> "mark", arg |-> parts, res |-> r.res])
  /\ ncalls' = ncalls + 1
  /\ UNCHANGED <<now, th>>
  /\ UNCHANGED chatvars

RequestSandbox(user) ==
  /\ ncalls < MaxCalls
  /\ \E t2 \in Later(now) :
       LET r == SandboxRun(store, template, user, now, t2)
       IN /\ store' = r.store
          /\ template' = r.tpl
          /\ trace' = Push(trace, [op |-> "sandbox", arg |-> user, res |-> r.res])
          /\ now' = t2
  /\ ncalls' = ncalls + 1
  /\ UNCHANGED th
  /\ UNCHANGED chatvars

RequestDummy(parts) ==
  /\ ncalls < MaxCalls
  /\ \E t2 \in Later(now) :
       LET r == DummyRun(store, template, parts, now, t2)
       IN /\ store' = r.store
          /\ template' = r.tpl
          /\ trace' = Push(trace, [op |-> "dummy", arg |-> parts, res |-> r.res])
          /\ now' = t2
  /\ ncalls' = ncalls + 1
  /\ UNCHANGED th
  /\ UNCHANGED chatvars

Next ==
  \/ Tick
  \/ \E user \in Users : GetChecklist(user)
  \/ \E parts \in MarkArgs : MarkStep(parts)
  \/ \E user \in Users : RequestSandbox(user)
  \/ \E parts \in DummyArgs : RequestDummy(parts)

Spec == Init /\ [][Next]_vars

\* ------------------------------- request threads of one process (concurrent)
\* The Flask server handles requests on threads of one process: the threads
\* share the file and the module-level template, and each has its own db.
\* A call is three steps: Call (parse, _load, _ensure_user and the first
\* clock reading), Step (the change of db, or the return of a call that
\* saves nothing), Return (_save and the return).

\* The user a call is about.
CallUser(op, arg) ==
  IF op \in {"get", "sandbox"} THEN arg
  ELSE IF Len(arg) > 0 THEN arg[1] ELSE "unknown"

\* The calls the request threads make.
Calls ==
  {[op |-> "get", arg |-> "alice"], [op |-> "sandbox", arg |-> "bob"],
   [op |-> "dummy", arg |-> <<"alice">>]}
    \cup {[op |-> "mark", arg |-> a] :
            a \in {<<"alice", s>> : s \in StepInputs} \cup {<<"alice">>}}

Call(t, c) ==
  /\ th[t].pc = "idle"
  /\ ncalls < MaxConcCalls
  /\ ncalls' = ncalls + 1
  /\ IF c.op = "mark" /\ Len(c.arg) < 2
     THEN /\ trace' = Push(trace, [op |-> c.op, arg |-> c.arg, res |-> [kind |-> "format"]])
          /\ UNCHANGED th
     ELSE /\ th' = [th EXCEPT ![t] =
                     [pc |-> "loaded", op |-> c.op, arg |-> c.arg,
                      db |-> EnsureUser(Load_(store), CallUser(c.op, c.arg)),
                      t1 |-> now, res |-> [kind |-> "none"]]]
          /\ UNCHANGED trace
  /\ UNCHANGED <<store, template, now>>
  /\ UNCHANGED chatvars

\* The call of thread t returns res.
Returned(t, res) ==
  /\ trace' = Push(trace, [op |-> th[t].op, arg |-> th[t].arg, res |-> res])
  /\ th' = [th EXCEPT ![t] = IdleThread]

\* The call of thread t has changed its db to db2 and will return res.
Mutated(t, db2, res) ==
  /\ th' = [th EXCEPT ![t].pc = "mutated", ![t].db = db2, ![t].res = res]
  /\ UNCHANGED trace

Step(t) ==
  /\ th[t].pc = "loaded"
  /\ LET op == th[t].op
         arg == th[t].arg
         db == th[t].db
         user == CallUser(op, arg)
         checklist == ChecklistOf(db, template, user)
     IN CASE op = "get" ->
               /\ Returned(t, FormatChecklist(checklist))
               /\ UNCHANGED template
          [] op = "mark" ->
               LET i == FindStep(checklist, arg[2])
                   done == ParseDone(arg)
               IN IF i = 0
                  THEN /\ Returned(t, [kind |-> "notfound", step |-> arg[2],
                                       ids |-> Ids(checklist)])
                       /\ UNCHANGED template
                  ELSE LET m == SetDone(db, template, user, i, done)
                       IN /\ template' = m.tpl
                          /\ Mutated(t,
                               AppendHistory(m.db, user,
                                 [ts |-> now, step |-> arg[2], done |-> done]),
                               [kind |-> "marked", title |-> checklist[i].title,
                                done |-> done])
          [] op = "sandbox" ->
               /\ Mutated(t,
                    AppendHistory(db, user,
                      [ts |-> now, action |-> "sandbox_request",
                       ticket |-> TicketId("SANDBOX", th[t].t1)]),
                    [kind |-> "sandbox", ticket |-> TicketId("SANDBOX", th[t].t1)])
               /\ UNCHANGED template
          [] op = "dummy" ->
               LET dataset == IF Len(arg) > 1 THEN arg[2] ELSE "sample_orders"
                   size == IF Len(arg) > 2 THEN arg[3] ELSE "small"
                   req_id == TicketId("DUMMY", th[t].t1)
               IN /\ Mutated(t,
                       AppendHistory(db, user,
                         [ts |-> now, action |-> "dummy_data", dataset |-> dataset,
                          size |-> size, req |-> req_id]),
                       [kind |-> "dummy", req |-> req_id, dataset |-> dataset,
                        size |-> size])
                  /\ UNCHANGED template
  /\ UNCHANGED <<store, now, ncalls>>
  /\ UNCHANGED chatvars

Return(t) ==
  /\ th[t].pc = "mutated"
  /\ store' = Save_(th[t].db, template)
  /\ Returned(t, th[t].res)
  /\ UNCHANGED <<template, now, ncalls>>
  /\ UNCHANGED chatvars

NextConc ==
  \/ Tick
  \/ \E t \in Threads, c \in Calls : Call(t, c)
  \/ \E t \in Threads : Step(t)
  \/ \E t \in Threads : Return(t)

SpecConc == Init /\ [][NextConc]_vars

\* ------------------------------------- the composite arguments, in breadth
\* The same operations, one request at a time, over the shapes a composite
\* argument can take: fields missing, empty or in another letter case.
DoneWords ==
  {"done", "DONE", "true", "True", "yes", "Yes", "undone", "no", "false", ""}

\* split(":") of "alice:sandbox", "alice:sandbox:<word>", "alice", "",
\* "alice:", ":sandbox" and "bob:dummy:Yes".
WideMarkArgs ==
  {<<"alice", "sandbox">>, <<"alice">>, <<"">>, <<"alice", "">>,
   <<"", "sandbox">>, <<"bob", "dummy", "Yes">>}
    \cup {<<"alice", "sandbox", w>> : w \in DoneWords}

\* split(":") of "alice", "alice:hr_cases", "alice:hr_cases:large", "",
\* ":hr_cases" and "bob:".
WideDummyArgs ==
  {<<"alice">>, <<"alice", "hr_cases">>, <<"alice", "hr_cases", "large">>,
   <<"">>, <<"", "hr_cases">>, <<"bob", "">>}

MarkStepArg(parts) ==
  /\ ncalls < MaxArgCalls
  /\ LET r == MarkRun(store, template, parts, now)
     IN /\ store' = r.store
        /\ template' = r.tpl
        /\ trace' = Push(trace, [op |-> "mark", arg |-> parts, res |-> r.res])
  /\ ncalls' = ncalls + 1
  /\ UNCHANGED <<now, th>>
  /\ UNCHANGED chatvars

RequestDummyArg(parts) ==
  /\ ncalls < MaxArgCalls
  /\ \E t2 \in Later(now) :
       LET r == DummyRun(store, template, parts, now, t2)
       IN /\ store' = r.store
          /\ template' = r.tpl
          /\ trace' = Push(trace, [op |-> "dummy", arg |-> parts, res |-> r.res])
          /\ now' = t2
  /\ ncalls' = ncalls + 1
  /\ UNCHANGED th
  /\ UNCHANGED chatvars

NextArgs ==
  \/ \E parts \in WideMarkArgs : MarkStepArg(parts)
  \/ \E parts \in WideDummyArgs : RequestDummyArg(parts)

SpecArgs == Init /\ [][NextArgs]_vars

\* --------------------------------------------------- storage that can fail
\* _save is STORE.write_text(...): the file is opened for writing, which
\* truncates it, and then written.  A write either succeeds, or fails before
\* the file is opened (permissions: the file is as it was), or fails after
\* (disk full: the file is left truncated).  A truncated file is not JSON:
\* json.loads in _load raises on it.
WriteOutcomes == {"written", "not_opened", "truncated"}

TruncatedFile == [truncated |-> TRUE]

Parseable(st) == st # TruncatedFile

\* The file after write_text of content over file st with the given outcome.
WriteText(st, content, outcome) ==
  CASE outcome = "written" -> content
    [] outcome = "not_opened" -> st
    [] outcome = "truncated" -> TruncatedFile

\* A call on file st whose run on a parseable file is r and which calls
\* _save when saves: what it leaves and returns, and how often it called
\* _save.  No operation catches an exception of _load or _save.
WithStorage(st, tpl, r, saves, outcome) ==
  IF ~Parseable(st)
  THEN [store |-> st, tpl |-> tpl,
        res |-> [kind |-> "raise", error |-> "JSONDecodeError"], writes |-> 0]
  ELSE IF ~saves
  THEN [store |-> r.store, tpl |-> r.tpl, res |-> r.res, writes |-> 0]
  ELSE [store |-> WriteText(st, r.store, outcome), tpl |-> r.tpl,
        res |-> IF outcome = "written" THEN r.res
                ELSE [kind |-> "raise", error |-> "OSError"],
        writes |-> 1]

\* The mark_onboarding_step arguments used while storage can fail; each has
\* a step id, so each call reaches _load.
FailMarkArgs == {<<"alice", "sandbox">>, <<"alice", "dummy">>, <<"alice", "bogus-id">>}

\* The step taken completes a call of op on arg that ran as r.
Completes(op, arg, r, outcome) ==
  /\ store' = r.store
  /\ template' = r.tpl
  /\ trace' = Push(trace, [op |-> op, arg |-> arg, res |-> r.res,
                           io |-> outcome, writes |-> r.writes])
  /\ ncalls' = ncalls + 1

GetChecklistIO(user) ==
  /\ ncalls < MaxFailCalls
  /\ Completes("get", user,
       WithStorage(store, template,
         IF Parseable(store) THEN GetRun(store, template, user)
         ELSE [store |-> store, tpl |-> template, res |-> [kind |-> "none"]],
         FALSE, "written"),
       "written")
  /\ UNCHANGED <<now, th>>
  /\ UNCHANGED chatvars

MarkStepIO(parts, outcome) ==
  /\ ncalls < MaxFailCalls
  /\ LET r == IF Parseable(store) THEN MarkRun(store, template, parts, now)
              ELSE [store |-> store, tpl |-> template, res |-> [kind |-> "none"]]
     IN Completes("mark", parts,
          WithStorage(store, template, r, r.res.kind = "marked", outcome), outcome)
  /\ UNCHANGED <<now, th>>
  /\ UNCHANGED chatvars

\* The two clock readings of a request are both taken at now here.
RequestSandboxIO(user, outcome) ==
  /\ ncalls < MaxFailCalls
  /\ Completes("sandbox", user,
       WithStorage(store, template,
         IF Parseable(store) THEN SandboxRun(store, template, user, now, now)
         ELSE [store |-> store, tpl |-> template, res |-> [kind |-> "none"]],
         TRUE, outcome),
       outcome)
  /\ UNCHANGED <<now, th>>
  /\ UNCHANGED chatvars

RequestDummyIO(parts, outcome) ==
  /\ ncalls < MaxFailCalls
  /\ Completes("dummy", parts,
       WithStorage(store, template,
         IF Parseable(store) THEN DummyRun(store, template, parts, now, now)
         ELSE [store |-> store, tpl |-> template, res |-> [kind |-> "none"]],
         TRUE, outcome),
       outcome)
  /\ UNCHANGED <<now, th>>
  /\ UNCHANGED chatvars

NextFail ==
  \/ Tick
  \/ \E user \in Users : GetChecklistIO(user)
  \/ \E parts \in FailMarkArgs, outcome \in WriteOutcomes : MarkStepIO(parts, outcome)
  \/ \E outcome \in WriteOutcomes : RequestSandboxIO("bob", outcome)
  \/ \E outcome \in WriteOutcomes : RequestDummyIO(<<"alice">>, outcome)

SpecFail == Init /\ [][NextFail]_vars

\* ============================================== calls on the agents' objects
MaxAgentCalls == 3

Messages == {"hello", "where is the VPN guide?"}

\* The exchanges an agent has had when it has served n successful replies.
EarlierExchanges(n) ==
  [i \in 1..n |-> IF i % 2 = 1 THEN <<"hello", [output |-> "Here is the answer."]>>
                  ELSE <<"where is the VPN guide?", [input |-> "echo"]>>]

\* The chat_history reply leaves on a new agent after the given exchanges.
RECURSIVE HistoryAfter(_)
HistoryAfter(xs) ==
  IF xs = <<>> THEN <<>>
  ELSE LET x == xs[Len(xs)]
       IN ReplyRun(HistoryAfter(SubSeq(xs, 1, Len(xs) - 1)), x[1],
                   [kind |-> "ok", result |-> x[2]]).history

\* One exchange short of a full chat_history.
AlmostFull == MaxHistory \div 2 - 1

\* The agents as a request finds them: new, or the chatbot agent having
\* served AlmostFull exchanges.
InitChat ==
  /\ store = EmptyStore
  /\ template = DEFAULT_CHECKLIST
  /\ now = 0
  /\ ncalls = 0
  /\ trace = <<>>
  /\ th = [t \in Threads |-> IdleThread]
  /\ \E n \in {0, AlmostFull} :
       /\ agents = [a \in AgentNames |->
                      IF a = "chatbot" THEN HistoryAfter(EarlierExchanges(n)) ELSE <<>>]
       /\ exchanges = [a \in AgentNames |->
                         IF a = "chatbot"
                         THEN [i \in 1..n |-> <<EarlierExchanges(n)[i][1],
                                                GetOutput(EarlierExchanges(n)[i][2])>>]
                         ELSE <<>>]

\* The exchanges of an agent after the reply calls a request made on it.
Exchanged(xs, a, calls) ==
  IF calls # <<>> /\ calls[1].agent = a /\ calls[1].outcome.kind = "ok"
  THEN Append(xs, <<calls[1].message, GetOutput(calls[1].outcome.result)>>)
  ELSE xs

\* agent.reply(message) called on agent a. In the chat specifications trace
\* holds the last completed call only.
AgentReply(a, message, outcome) ==
  /\ ncalls < MaxAgentCalls
  /\ LET r == ReplyRun(agents[a], message, outcome)
         call == [agent |-> a, message |-> message, outcome |-> outcome]
     IN /\ agents' = [agents EXCEPT ![a] = r.history]
        /\ exchanges' = [exchanges EXCEPT ![a] = Exchanged(@, a, <<call>>)]
        /\ trace' = <<[op |-> "reply", call |-> call, kind |-> r.kind, res |-> r.res]>>
  /\ ncalls' = ncalls + 1
  /\ UNCHANGED <<store, template, now, th>>

\* agent.clear_history() called on agent a.
ClearHistory(a) ==
  /\ ncalls < MaxAgentCalls
  /\ agents' = [agents EXCEPT ![a] = ClearRun(@)]
  /\ exchanges' = [exchanges EXCEPT ![a] = <<>>]
  /\ trace' = <<[op |-> "clear_history", agent |-> a]>>
  /\ ncalls' = ncalls + 1
  /\ UNCHANGED <<store, template, now, th>>

NextAgent ==
  \/ \E a \in AgentNames, message \in Messages, outcome \in ExecutorOutcomes :
       AgentReply(a, message, outcome)
  \/ \E a \in AgentNames : ClearHistory(a)

SpecAgent == InitChat /\ [][NextAgent]_vars

\* ============================================= requests to the applications
MaxApiCalls == 2

\* The message and agent fields of the request bodies.
MessageFields ==
  {JNull, JStr("   "), JStr("hello"), JStr("/help"), JStr(" HELP "),
   JStr("Hi, I just joined"), JNum}
AgentFields == {JNull, JStr(" onboarding "), JStr("nobody"), JNum}
Bodies == [message : MessageFields, agent : AgentFields]

\* A process runs one of the two applications: once one of them has served
\* a request, the agents are that application's.
Serving(app) == IF trace = <<>> THEN TRUE ELSE trace[1].app = app

\* POST /api/chat of src/app.py.
Chat(data, outcome) ==
  /\ ncalls < MaxApiCalls
  /\ Serving("src/app.py")
  /\ LET r == ChatRun(agents, data, outcome)
     IN /\ agents' = r.agents
        /\ exchanges' = [a \in AgentNames |-> Exchanged(exchanges[a], a, r.calls)]
        /\ trace' = <<[op |-> "chat", app |-> "src/app.py", data |-> data,
                       res |-> r.res, lookups |-> r.lookups, calls |-> r.calls]>>
  /\ ncalls' = ncalls + 1
  /\ UNCHANGED <<store, template, now, th>>

\* POST /api/chat of src/chatbot/app.py.
ChatbotChat(data, outcome) ==
  /\ ncalls < MaxApiCalls
  /\ Serving("src/chatbot/app.py")
  /\ LET r == ChatbotChatRun(agents, data, outcome)
     IN /\ agents' = r.agents
        /\ exchanges' = [a \in AgentNames |-> Exchanged(exchanges[a], a, r.calls)]
        /\ trace' = <<[op |-> "chat", app |-> "src/chatbot/app.py", data |-> data,
                       res |-> r.res, lookups |-> r.lookups, calls |-> r.calls]>>
  /\ ncalls' = ncalls + 1
  /\ UNCHANGED <<store, template, now, th>>

\* POST /api/clear of src/app.py.
ClearChat ==
  /\ ncalls < MaxApiCalls
  /\ Serving("src/app.py")
  /\ agents' = ClearChatRun(agents)
  /\ exchanges' = [a \in AgentNames |-> <<>>]
  /\ trace' = <<[op |-> "clear", app |-> "src/app.py"]>>
  /\ ncalls' = ncalls + 1
  /\ UNCHANGED <<store, template, now, th>>

NextApi ==
  \/ \E data \in Bodies, outcome \in ExecutorOutcomes : Chat(data, outcome)
  \/ \E data \in Bodies, outcome \in ExecutorOutcomes : ChatbotChat(data, outcome)
  \/ ClearChat

SpecApi == InitChat /\ [][NextApi]_vars

\* ==================================================================== claims
TemplateIdList ==
  <<"d1-setup", "join-channels", "install-tools", "sandbox",
    "train-sec", "train-data", "dummy", "demo">>

StepIds == {TemplateIdList[i] : i \in 1..Len(TemplateIdList)}

\* Position of a template id in the template order.
StepIndex(step_id) == CHOOSE i \in 1..Len(TemplateIdList) : TemplateIdList[i] = step_id

IsPrefix(a, b) == Len(a) <= Len(b) /\ SubSeq(b, 1, Len(a)) = a

\* The completed calls, newest first.
TLast == trace[Len(trace)]
TPrev == trace[Len(trace) - 1]
TPrev2 == trace[Len(trace) - 2]

\* call is a mark_onboarding_step of user u, step s that marked it done.
MarkedDone(call, u, s) ==
  /\ call.op = "mark"
  /\ call.res.kind = "marked"
  /\ call.res.done
  /\ call.arg[1] = u
  /\ call.arg[2] = s

\* The step taken is one whole store operation (sequential specification).
OpStep == ncalls' = ncalls + 1

\* ---- C1: get_onboarding_checklist of a user that has no record lists the
\* 8 default items, all not done, with progress 0/8, whatever calls were
\* made before for other users.
C1_FreshUserAllOpen ==
  (Len(trace) > 0 /\ TLast.op = "get" /\ TLast.arg \notin DOMAIN store)
    => /\ TLast.res.completed = 0
       /\ TLast.res.total = 8
       /\ Len(TLast.res.lines) = 8
       /\ \A i \in 1..Len(TLast.res.lines) :
            /\ TLast.res.lines[i].marker = "open"
            /\ TLast.res.lines[i].title = DEFAULT_CHECKLIST[i].title

\* ---- C2: when the last two calls to return are mark_onboarding_step calls
\* of one user on two different valid steps, both marking done, and no call
\* is in flight, the persisted checklist has both items done.
C2_NoLostUpdate ==
  \A u \in Users, s1, s2 \in StepIds :
    ( /\ s1 # s2
      /\ \A t \in Threads : th[t].pc = "idle"
      /\ Len(trace) >= 2
      /\ MarkedDone(TPrev, u, s1)
      /\ MarkedDone(TLast, u, s2) )
    => /\ u \in DOMAIN store
       /\ store[u].checklist[StepIndex(s1)].done
       /\ store[u].checklist[StepIndex(s2)].done

\* ---- C3: the persisted history of a user only grows: each persisted
\* history is a prefix of the next one.
C3_HistoryAppendOnly ==
  [][\A u \in DOMAIN store \cap DOMAIN store' :
       IsPrefix(store[u].history, store'[u].history)]_vars

\* ---- C4: a mark_onboarding_step whose step id is not in the checklist
\* returns the not-found message listing the 8 template ids and leaves the
\* persisted store as it was.
C4_NotFoundLeavesStore ==
  [][(OpStep /\ trace'[Len(trace')].op = "mark"
        /\ trace'[Len(trace')].res.kind = "notfound")
       => /\ store' = store
          /\ trace'[Len(trace')].res.ids = TemplateIdList]_vars

C4_Witness ==
  /\ Len(trace) > 0
  /\ TLast.op = "mark"
  /\ TLast.res.kind = "notfound"
  /\ TLast.arg[1] \notin DOMAIN store
  /\ store # EmptyStore

\* ---- C5: marking the same step done twice in a row appends one step-toggle
\* event per call and the second call leaves the checklist as the first
\* left it.
C5_MarkTwiceIdempotent ==
  [][\A u \in Users, s \in StepIds :
       ( /\ OpStep
         /\ Len(trace) > 0
         /\ MarkedDone(TLast, u, s)
         /\ MarkedDone(trace'[Len(trace')], u, s) )
       => /\ store'[u].checklist = store[u].checklist
          /\ Len(store[u].history) >= 1
          /\ Len(store'[u].history) = Len(store[u].history) + 1
          /\ IsPrefix(store[u].history, store'[u].history)
          /\ \A k \in {Len(store'[u].history) - 1, Len(store'[u].history)} :
               /\ "step" \in DOMAIN store'[u].history[k]
               /\ store'[u].history[k].step = s
               /\ store'[u].history[k].done = TRUE]_vars

C5_Witness ==
  \E u \in Users, s \in StepIds :
    /\ Len(trace) >= 2
    /\ MarkedDone(TPrev, u, s)
    /\ MarkedDone(TLast, u, s)
    /\ Len(store[u].history) >= 2

\* The last three calls are get(u), a mark of (u, s) done, get(u).
GetMarkGet(u, s) ==
  /\ Len(trace) >= 3
  /\ TPrev2.op = "get" /\ TPrev2.arg = u
  /\ MarkedDone(TPrev, u, s)
  /\ TLast.op = "get" /\ TLast.arg = u

\* ---- C6 as claimed: after get, mark done, get, the item shows done and
\* the completed count is exactly 1 higher than before the mark.
C6_MarkIncrementsByOne ==
  \A u \in Users, s \in StepIds :
    GetMarkGet(u, s)
      => /\ TLast.res.lines[StepIndex(s)].marker = "done"
         /\ TLast.res.completed = TPrev2.res.completed + 1

\* ---- C6 as amended: after get, mark done, get, the item shows done; the
\* completed count is 1 higher when the item showed not done before the
\* mark, and the same when it already showed done.
C6_MarkIncrementsWhenOpen ==
  \A u \in Users, s \in StepIds :
    GetMarkGet(u, s)
      => /\ TLast.res.lines[StepIndex(s)].marker = "done"
         /\ TLast.res.completed =
              TPrev2.res.completed
                + (IF TPrev2.res.lines[StepIndex(s)].marker = "open" THEN 1 ELSE 0)
         /\ \A i \in 1..8 :
              i # StepIndex(s) => TLast.res.lines[i] = TPrev2.res.lines[i]

C6_Witness ==
  \E u \in Users, s \in StepIds :
    /\ GetMarkGet(u, s)
    /\ TPrev2.res.lines[StepIndex(s)].marker = "open"
    /\ TLast.res.completed = TPrev2.res.completed + 1

\* ---- C7: two request_sandbox_access calls of one user in succession return
\* distinct ticket ids and append distinct events; two request_dummy_data
\* calls in succession return distinct request ids.
C7_TicketsDistinct ==
  Len(trace) >= 2 =>
    /\ (TPrev.op = "sandbox" /\ TLast.op = "sandbox" /\ TPrev.arg = TLast.arg)
         => /\ TPrev.res.ticket # TLast.res.ticket
            /\ LET h == store[TLast.arg].history
               IN Len(h) >= 2 /\ h[Len(h) - 1] # h[Len(h)]
    /\ (TPrev.op = "dummy" /\ TLast.op = "dummy")
         => TPrev.res.req # TLast.res.req

C9_RecordNeverRemoved ==
  [][DOMAIN store \subseteq DOMAIN store']_vars

\* ---- C10: every persisted checklist consists of the 8 template ids, each
\* once, in template order.
C10_ChecklistIdsFixed ==
  \A u \in DOMAIN store : Ids(store[u].checklist) = TemplateIdList

C10_Witness ==
  \E u \in DOMAIN store :
    /\ Len(store[u].history) >= 2
    /\ \E i \in 1..Len(store[u].checklist) : store[u].checklist[i].done
    /\ Len(trace) > 0
    /\ TLast.op = "mark"
    /\ TLast.res.kind = "notfound"

\* The call that the step taken completes.
NewCall == trace'[Len(trace')]

\* ---- C11: a mark_onboarding_step that finds its step sets the done flag
\* of that item only and appends one event to that user's history: the
\* user's other 7 items (as loaded from the file or, for a user created by
\* this call, as the template holds them) and every other user's record are
\* as before.
C11_MarkChangesOneItem ==
  [][(OpStep /\ NewCall.op = "mark" /\ NewCall.res.kind = "marked")
       => LET u == NewCall.arg[1]
              i == StepIndex(NewCall.arg[2])
              before == IF u \in DOMAIN store THEN store[u].checklist ELSE template
              hist == IF u \in DOMAIN store THEN store[u].history ELSE <<>>
          IN /\ DOMAIN store' = DOMAIN store \cup {u}
             /\ store'[u].checklist[i] = [before[i] EXCEPT !.done = NewCall.res.done]
             /\ \A j \in 1..8 : j # i => store'[u].checklist[j] = before[j]
             /\ Len(store'[u].history) = Len(hist) + 1
             /\ IsPrefix(hist, store'[u].history)
             /\ \A v \in DOMAIN store : v # u => store'[v] = store[v]]_vars

C11_Witness ==
  /\ Len(trace) > 0
  /\ TLast.op = "mark"
  /\ TLast.res.kind = "marked"
  /\ TLast.arg[1] \in DOMAIN store
  /\ Completed(store[TLast.arg[1]].checklist) >= 2
  /\ \E v \in DOMAIN store : v # TLast.arg[1] /\ Len(store[v].history) >= 1

\* ---- C12: request_sandbox_access and request_dummy_data for a user already
\* in the store leave that user's checklist as it was and append exactly one
\* event to that user's history; no other record changes.
C12_RequestsLeaveChecklist ==
  [][(OpStep /\ NewCall.op \in {"sandbox", "dummy"}
        /\ CallUser(NewCall.op, NewCall.arg) \in DOMAIN store)
       => LET u == CallUser(NewCall.op, NewCall.arg)
          IN /\ store'[u].checklist = store[u].checklist
             /\ Len(store'[u].history) = Len(store[u].history) + 1
             /\ IsPrefix(store[u].history, store'[u].history)
             /\ \A v \in DOMAIN store : v # u => store'[v] = store[v]]_vars

C12_Witness ==
  /\ Len(trace) > 0
  /\ TLast.op = "sandbox"
  /\ TLast.arg \in DOMAIN store
  /\ Len(store[TLast.arg].history) >= 2
  /\ ~store[TLast.arg].checklist[StepIndex("sandbox")].done

\* ---- C13: get_onboarding_checklist leaves the checklist and history of
\* every user present in the persisted store as they were.
C13_GetLeavesRecords ==
  [][(OpStep /\ NewCall.op = "get")
       => \A u \in DOMAIN store : u \in DOMAIN store' /\ store'[u] = store[u]]_vars

C13_Witness ==
  /\ Len(trace) > 0
  /\ TLast.op = "get"
  /\ TLast.arg \in DOMAIN store
  /\ Len(store[TLast.arg].history) >= 1
  /\ Cardinality(DOMAIN store) >= 2

\* ---- C19: get_onboarding_checklist lists each of the user's items once, in
\* template order, with the marker of its done flag, and reports the number
\* of done items out of 8.
C19_ListingMatchesChecklist ==
  (Len(trace) > 0 /\ TLast.op = "get")
    => LET u == TLast.arg
           items == IF u \in DOMAIN store THEN store[u].checklist ELSE template
           res == TLast.res
       IN /\ res.total = 8
          /\ Len(res.lines) = 8
          /\ \A i \in 1..8 :
               /\ res.lines[i].title = DEFAULT_CHECKLIST[i].title
               /\ res.lines[i].marker = (IF items[i].done THEN "done" ELSE "open")
          /\ res.completed = Cardinality({i \in 1..8 : items[i].done})

C19_Witness ==
  /\ Len(trace) > 0
  /\ TLast.op = "get"
  /\ TLast.arg \in DOMAIN store
  /\ TLast.res.completed >= 2
  /\ TLast.res.lines[StepIndex("dummy")].marker = "done"
  /\ TLast.res.lines[StepIndex("demo")].marker = "open"

\* The positions of the step events of step_id in a history.
Toggles(history, step_id) ==
  {k \in 1..Len(history) :
     "step" \in DOMAIN history[k] /\ history[k].step = step_id}

\* The done value that replaying a history gives step_id.
Replay(history, step_id) ==
  LET K == Toggles(history, step_id)
  IN IF K = {} THEN FALSE
     ELSE history[CHOOSE k \in K : \A j \in K : j <= k].done

\* ---- C20: every persisted done flag is the done value of the latest step
\* event of that item in the user's history, and not done when there is none.
C20_ChecklistIsReplay ==
  \A u \in DOMAIN store :
    \A i \in 1..Len(store[u].checklist) :
      store[u].checklist[i].done = Replay(store[u].history, store[u].checklist[i].id)

\* The last event of a history.
LastEvent(history) == history[Len(history)]

\* The third fields that, whatever their letter case, read done, true or yes.
TrueWords == {"done", "DONE", "true", "True", "yes", "Yes"}

\* ---- C14: the done value of mark_onboarding_step is true when no third
\* field is given and otherwise true exactly when the third field is, in any
\* letter case, one of done, true, yes; the item's flag and the history event
\* carry that value.
C14_DoneValue ==
  [][(OpStep /\ NewCall.op = "mark" /\ NewCall.res.kind = "marked")
       => LET parts == NewCall.arg
              u == parts[1]
              done == IF Len(parts) = 2 THEN TRUE ELSE parts[3] \in TrueWords
          IN /\ NewCall.res.done = done
             /\ store'[u].checklist[StepIndex(parts[2])].done = done
             /\ LastEvent(store'[u].history).step = parts[2]
             /\ LastEvent(store'[u].history).done = done]_vars

C14_Witness ==
  /\ Len(trace) >= 2
  /\ TPrev.op = "mark" /\ TPrev.res.kind = "marked"
  /\ Len(TPrev.arg) = 3 /\ TPrev.arg[3] = "DONE" /\ TPrev.res.done
  /\ TLast.op = "mark" /\ TLast.res.kind = "marked"
  /\ Len(TLast.arg) = 3 /\ TLast.arg[3] = "undone" /\ ~TLast.res.done
  /\ ~store["alice"].checklist[StepIndex("sandbox")].done

\* ---- C15: request_dummy_data records dataset sample_orders and size small
\* for the fields that are omitted and the supplied values otherwise, and the
\* confirmation names the recorded values.
C15_DummyDefaults ==
  [][(OpStep /\ NewCall.op = "dummy")
       => LET parts == NewCall.arg
              event == LastEvent(store'[CallUser("dummy", parts)].history)
          IN /\ event.action = "dummy_data"
             /\ event.dataset = (IF Len(parts) >= 2 THEN parts[2] ELSE "sample_orders")
             /\ event.size = (IF Len(parts) >= 3 THEN parts[3] ELSE "small")
             /\ NewCall.res.dataset = event.dataset
             /\ NewCall.res.size = event.size
             /\ NewCall.res.req = event.req]_vars

C15_Witness ==
  /\ Len(trace) >= 2
  /\ TPrev.op = "dummy" /\ TPrev.arg = <<"alice", "hr_cases">>
  /\ TPrev.res.dataset = "hr_cases" /\ TPrev.res.size = "small"
  /\ TLast.op = "dummy" /\ TLast.arg = <<"alice">>
  /\ LastEvent(store["alice"].history).dataset = "sample_orders"
  /\ LastEvent(store["alice"].history).size = "small"

\* ---- C16: a composite argument whose user part is empty is recorded under
\* the user id "unknown": the store never holds a record under the empty
\* string.
C16_EmptyUserIsUnknown ==
  /\ "" \notin DOMAIN store
  /\ (Len(trace) > 0 /\ TLast.op = "dummy" /\ TLast.arg[1] = "")
       => "unknown" \in DOMAIN store

\* ---- C17: a mark_onboarding_step argument without a step id (no separator,
\* or an empty step-id field) returns the expected-format message and leaves
\* the persisted store as it was.
C17_MissingStepIsFormatError ==
  [][(OpStep /\ NewCall.op = "mark"
        /\ (Len(NewCall.arg) < 2 \/ NewCall.arg[2] = ""))
       => /\ NewCall.res.kind = "format"
          /\ store' = store]_vars

\* ---- C18: a store operation whose durable write fails returns no
\* confirmation but raises, attempts the write once, and leaves the
\* persisted store as it was before the operation.
C18_FailedWriteLeavesStore ==
  [][(OpStep /\ NewCall.writes > 0 /\ NewCall.io # "written")
       => /\ NewCall.res.kind = "raise"
          /\ NewCall.writes = 1
          /\ store' = store]_vars

\* ---- C21: the in-process Default Checklist Template is fixed: all 8 of its
\* items are not done in every reachable state.
C21_TemplateFixed ==
  /\ Len(template) = 8
  /\ \A i \in 1..Len(template) : ~template[i].done

\* The entries of chat_history that a list of exchanges amounts to.
Flatten(xs) ==
  [k \in 1..(2 * Len(xs)) |->
     IF k % 2 = 1 THEN Entry("human", xs[(k + 1) \div 2][1])
     ELSE Entry("assistant", xs[k \div 2][2])]

\* ---- C22: after any sequence of reply and clear_history calls, each
\* agent's chat_history has at most 20 entries, an even number of them,
\* alternating human and assistant, and is the most recent successful
\* exchanges in order; after clear_history it is empty.
C22_HistoryShape ==
  /\ \A a \in AgentNames :
       LET h == agents[a]
       IN /\ Len(h) <= 20
          /\ Len(h) % 2 = 0
          /\ \A k \in 1..Len(h) : h[k][1] = IF k % 2 = 1 THEN "human" ELSE "assistant"
          /\ h = LastN(Flatten(exchanges[a]), 20)
  /\ (trace # <<>> /\ trace[1].op = "clear_history") => agents[trace[1].agent] = <<>>

\* A successful reply on an agent whose history was full has dropped the
\* oldest exchange.
C22_Witness ==
  /\ Len(exchanges["chatbot"]) > 10
  /\ Len(agents["chatbot"]) = 20
  /\ agents["chatbot"][1] = Entry("human", exchanges["chatbot"][Len(exchanges["chatbot"]) - 9][1])
  /\ trace[1].op = "reply"
  /\ trace[1].call.outcome.kind = "ok"

\* ---- C23: reply never raises; when the executor invocation fails it
\* returns a string beginning "Sorry, I encountered an error" and leaves the
\* agent's chat_history exactly as it was before the call.
C23_FailedReply ==
  [][(ncalls' = ncalls + 1 /\ trace'[1].op = "reply")
       => LET c == trace'[1]
          IN /\ c.kind = "return"
             /\ c.call.outcome.kind = "raise"
                  => /\ c.res[1] = "Sorry, I encountered an error: "
                     /\ agents' = agents]_vars

\* A reply whose executor raised, on an agent with exchanges on record.
C23_Witness ==
  /\ trace # <<>>
  /\ trace[1].op = "reply"
  /\ trace[1].call.outcome.kind = "raise"
  /\ trace[1].kind = "return"
  /\ agents[trace[1].call.agent] # <<>>

\* The message and the agent name a request body gives, as the claim reads
\* them: trimmed, an absent message empty, an absent agent the default.
GivenMessage(data) ==
  CASE data.message.t = "str" -> Strip(data.message.v)
    [] data.message.t = "null" -> ""
    [] OTHER -> "(not a string)"

GivenAgent(data) ==
  CASE data.agent.t = "str" -> IF Strip(data.agent.v) = "" THEN "chatbot" ELSE Strip(data.agent.v)
    [] data.agent.t = "null" -> "chatbot"
    [] OTHER -> "(not a string)"

\* The outcome of a handled request c under the order empty message, help,
\* unknown agent, reply.
OrderedChecks(c) ==
  LET msg == GivenMessage(c.data)
      name == GivenAgent(c.data)
  IN IF msg = ""
     THEN c.res.status = 400 /\ c.calls = <<>>
     ELSE IF Lower(msg) \in {"/help", "help"}
     THEN c.res.kind = "help" /\ c.lookups = <<>> /\ c.calls = <<>>
     ELSE IF name \notin AgentNames
     THEN c.res.status = 400 /\ c.calls = <<>>
     ELSE Len(c.calls) = 1 /\ c.calls[1].agent = name

\* The same without the help step.
OrderedChecksNoHelp(c) ==
  LET msg == GivenMessage(c.data)
      name == GivenAgent(c.data)
  IN IF msg = ""
     THEN c.res.status = 400 /\ c.calls = <<>>
     ELSE IF name \notin AgentNames
     THEN c.res.status = 400 /\ c.calls = <<>>
     ELSE Len(c.calls) = 1 /\ c.calls[1].agent = name

\* ---- C24 as stated: every /api/chat handler answers an empty or
\* whitespace-only message with 400 and no agent invoked; else '/help' or
\* 'help' in any case with the help text and no agent looked up or invoked,
\* whatever the agent name; else an unknown agent name with 400 and no agent
\* invoked; otherwise it makes exactly one reply call on the named agent.
C24_ChecksInOrder ==
  (trace # <<>> /\ trace[1].op = "chat") => OrderedChecks(trace[1])

\* ---- C24 amended: for message and agent fields that are strings or absent,
\* the handler of src/app.py checks in that order, and the handler of
\* src/chatbot/app.py checks empty message, then unknown agent, then makes
\* the one reply call, a help message included; a field of another type ends
\* either handler with a 500 and no agent looked up or invoked.
C24_ChecksInOrderPerApp ==
  (trace # <<>> /\ trace[1].op = "chat")
    => LET c == trace[1]
       IN IF c.data.message.t = "num" \/ c.data.agent.t = "num"
          THEN c.res.status = 500 /\ c.lookups = <<>> /\ c.calls = <<>>
          ELSE IF c.app = "src/app.py" THEN OrderedChecks(c)
          ELSE OrderedChecksNoHelp(c)

\* src/app.py has answered a help message that named an unknown agent.
C24_Witness ==
  /\ trace # <<>>
  /\ trace[1].op = "chat"
  /\ trace[1].app = "src/app.py"
  /\ trace[1].data = [message |-> JStr(" HELP "), agent |-> JStr("nobody")]
  /\ trace[1].res.kind = "help"
  /\ trace[1].lookups = <<>>

====
